---- MODULE Spec2Model ----
(***************************************************************************)
(* A model of fastchain's node tree (src/fastchain/nodes.py): the leaf,    *)
(* chain, loop and branching-model nodes in their synchronous and          *)
(* concurrent forms, executed step by step as a set of activation frames   *)
(* (Spec); of the operations that make nodes out of nodes, over a heap of  *)
(* node objects (BuildSpec); and of the chain wrapper and the registry of  *)
(* src/fastchain/chains.py (ChainsSpec, NameSpec).                         *)
(***************************************************************************)
EXTENDS Integers, Sequences, FiniteSets, Bags, TLC

VARIABLES
    tree,       \* the node tree under test (a node record)
    input,      \* the argument of the top-level call
    phase,      \* "idle" | "running" | "finished" | "unconvertible"
    frames,     \* call path -> activation frame of one node(arg, reporter) call
    calls,      \* call path of a leaf -> how many times its callable was invoked
    reports,    \* bag of the outcomes recorded through Reporter.success / .failure
    first,      \* outcome of the synchronous run kept for the concurrent re-run
    converted,  \* TRUE once the tree has been replaced by tree.to_async()
    heap,       \* the node objects: object id -> slots (children held by id)
    made,       \* the last operation applied to a node object, and what it gave
    registry,   \* chains._registry_: path of name parts -> a chain or a namespace
    wrappers,   \* the chains.Chain objects made so far, by id
    history,    \* per chains.Chain object, the handlers added since the last clear
    last        \* the last operation of chains.py, and what it gave

runVars == <<tree, input, phase, frames, calls, reports, first, converted>>
buildVars == <<heap, made>>
chainsVars == <<registry, wrappers, history, last>>
vars == <<runVars, buildVars, chainsVars>>

(***************************************************************************)
(* Bounds of the model.                                                    *)
(***************************************************************************)
MaxInt == 1     \* integer inputs range over 0..MaxInt
MaxLen == 2     \* input sequences have at most MaxLen elements
MaxNodes == 2   \* flat chains and models have at most MaxNodes children

(***************************************************************************)
(* Python values.  None is both an ordinary value and the absent result.   *)
(***************************************************************************)
None == [t |-> "none", v |-> 0]
PyInt(n) == [t |-> "int", v |-> n]
PyList(s) == [t |-> "list", v |-> s]
PyDict(s) == [t |-> "dict", v |-> s]   \* sequence of <<key, value>>, insertion order
Str(s) == [t |-> "str", v |-> s]

RECURSIVE SeqsUpTo(_, _)
SeqsUpTo(S, n) ==
    IF n = 0 THEN {<<>>}
    ELSE LET shorter == SeqsUpTo(S, n - 1)
         IN  shorter \cup {Append(s, x) : s \in {q \in shorter : Len(q) = n - 1}, x \in S}

Ints == {PyInt(n) : n \in 0..MaxInt}
Inputs == Ints \cup {PyList(s) : s \in SeqsUpTo(Ints, MaxLen)}

(***************************************************************************)
(* Severity (reporter.Severity) and the wrapped user callables.            *)
(***************************************************************************)
OPTIONAL == "OPTIONAL"
NORMAL == "NORMAL"
REQUIRED == "REQUIRED"
Severity == {OPTIONAL, NORMAL, REQUIRED}

NoName == Str("None")

Returns(v) == [raises |-> FALSE, val |-> v, error |-> "-"]
Raises(e) == [raises |-> TRUE, val |-> None, error |-> e]

\* The deterministic callables wrapped by the leaves of the trees:
\*   inc  = lambda x: x + 1
\*   pos  = x if x > 0, raises ValueError otherwise
\*   none = a callable that returns None (a procedure)
FuncNames == {"inc", "pos", "none"}
Fn(f) == [fn |-> f, coro |-> FALSE]
NoFunc == Fn("-")

is_async(func) == func.coro

Apply(func, arg) ==
    CASE func.fn = "inc" ->
            IF arg.t = "int" THEN Returns(PyInt(arg.v + 1)) ELSE Raises("TypeError")
      [] func.fn = "pos" ->
            IF arg.t = "int"
            THEN IF arg.v > 0 THEN Returns(arg) ELSE Raises("ValueError")
            ELSE Raises("TypeError")
      [] func.fn = "none" -> Returns(None)

\* asyncify(func): a coroutine function that evaluates func and resolves to its outcome.
asyncify(func) == [func EXCEPT !.coro = TRUE]

(***************************************************************************)
(* Node classes.  A node record carries the class (kind, async) and the    *)
(* slots of the instance.                                                  *)
(***************************************************************************)
RECURSIVE SumLen(_)
SumLen(nodes) == IF nodes = <<>> THEN 0 ELSE Head(nodes).len + SumLen(Tail(nodes))

\* a list of (branch, node) pairs is kept as the branches and the nodes, aligned
Branches(pairs) == [k \in 1..Len(pairs) |-> pairs[k][1]]
Children(pairs) == [k \in 1..Len(pairs) |-> pairs[k][2]]
Pairs(node) == [k \in 1..Len(node.nodes) |-> <<node.branches[k], node.nodes[k]>>]

BaseNode(kind, async, name) ==
    [kind |-> kind, async |-> async, name |-> name, severity |-> NORMAL,
     func |-> NoFunc, branches |-> <<>>, nodes |-> <<>>, len |-> 0]

Node(func, name) ==
    [BaseNode("Node", FALSE, name) EXCEPT !.func = func, !.len = 1]

AsyncNode(func, name) ==
    [BaseNode("Node", TRUE, name) EXCEPT !.func = func, !.len = 1]

Chain(nodes, name) ==
    [BaseNode("Chain", FALSE, name) EXCEPT !.nodes = nodes, !.len = SumLen(nodes)]

AsyncChain(nodes, name) ==
    [BaseNode("Chain", TRUE, name) EXCEPT !.nodes = nodes, !.len = SumLen(nodes)]

Loop(node) ==
    [BaseNode("Loop", FALSE, node.name) EXCEPT !.nodes = <<node>>, !.len = node.len]

AsyncLoop(node) ==
    [BaseNode("Loop", TRUE, node.name) EXCEPT !.nodes = <<node>>, !.len = node.len]

\* Model.__init__; cls is the concrete class: "ListModel" or "DictModel".
Model(cls, async, nodes) ==
    [BaseNode(cls, async, NoName) EXCEPT !.branches = Branches(nodes),
                                         !.nodes = Children(nodes),
                                         !.len = SumLen(Children(nodes))]

ListModel(nodes) == Model("ListModel", FALSE, nodes)
AsyncListModel(nodes) == Model("ListModel", TRUE, nodes)
DictModel(nodes) == Model("DictModel", FALSE, nodes)
AsyncDictModel(nodes) == Model("DictModel", TRUE, nodes)

IsModel(node) == node.kind \in {"ListModel", "DictModel"}

\* copy(): self.__class__(...) over copied children; the constructor resets severity.
RECURSIVE copy(_)
copy(node) ==
    CASE node.kind = "Node" ->
            IF node.async THEN AsyncNode(node.func, node.name) ELSE Node(node.func, node.name)
      [] node.kind = "Chain" ->
            LET kids == [k \in 1..Len(node.nodes) |-> copy(node.nodes[k])]
            IN  IF node.async THEN AsyncChain(kids, node.name) ELSE Chain(kids, node.name)
      [] node.kind = "Loop" ->
            IF node.async THEN AsyncLoop(copy(node.nodes[1])) ELSE Loop(copy(node.nodes[1]))
      [] OTHER ->
            Model(node.kind, node.async,
                  [k \in 1..Len(node.nodes) |-> <<node.branches[k], copy(node.nodes[k])>>])

optional(node) == [copy(node) EXCEPT !.severity = OPTIONAL]
required(node) == [copy(node) EXCEPT !.severity = REQUIRED]

\* to_async(): resolved on Node, Chain, Loop and Model for the concurrent classes too
\* (they precede AsyncBaseNode in the method resolution order).  Model.to_async
\* instantiates AsyncModel, whose convert is abstract: a TypeError, shown here as a
\* node of kind "TypeError".
TypeError == BaseNode("TypeError", TRUE, NoName)

RECURSIVE to_async(_)
to_async(node) ==
    CASE node.kind = "Node" -> AsyncNode(asyncify(node.func), node.name)
      [] node.kind = "Chain" ->
            LET kids == [k \in 1..Len(node.nodes) |-> to_async(node.nodes[k])]
            IN  IF \E k \in 1..Len(kids) : kids[k] = TypeError
                THEN TypeError
                ELSE AsyncChain(kids, node.name)
      [] node.kind = "Loop" ->
            LET kid == to_async(node.nodes[1])
            IN  IF kid = TypeError THEN TypeError ELSE AsyncLoop(kid)
      [] OTHER -> TypeError

(***************************************************************************)
(* Reporter: a root made by Reporter(name), and the scopes derived from it *)
(* by reporter(name).  id tells the roots apart (object identity).         *)
(***************************************************************************)
Reporter(name, id) == [root |-> id, scope |-> <<name>>]
Scoped(reporter, name) == [reporter EXCEPT !.scope = Append(@, name)]
NoReporter == [root |-> <<0>>, scope |-> <<>>]

\* rep is reporter itself or a scope derived from it
DerivedFrom(rep, reporter) ==
    /\ rep.root = reporter.root
    /\ Len(rep.scope) >= Len(reporter.scope)
    /\ SubSeq(rep.scope, 1, Len(reporter.scope)) = reporter.scope

Success(reporter, in, out, at) ==
    [rep |-> reporter, kind |-> "success", input |-> in, output |-> out,
     error |-> "-", severity |-> "-", at |-> at]
Failure(reporter, err, sev, in, at) ==
    [rep |-> reporter, kind |-> "failure", input |-> in, output |-> None,
     error |-> err, severity |-> sev, at |-> at]

(***************************************************************************)
(* The trees under test, synchronous (a = FALSE) and concurrent (a = TRUE).*)
(***************************************************************************)
Leaf(a, f) == IF a THEN AsyncNode(asyncify(Fn(f)), Str(f)) ELSE Node(Fn(f), Str(f))

WithSeverity(node, sev) ==
    CASE sev = OPTIONAL -> optional(node)
      [] sev = REQUIRED -> required(node)
      [] OTHER -> node

ChainOf(a, nodes) == IF a THEN AsyncChain(nodes, NoName) ELSE Chain(nodes, NoName)
LoopOf(a, node) == IF a THEN AsyncLoop(node) ELSE Loop(node)

KeyNames == <<"a", "b", "c", "d">>
\* enumerate(list) and dict.items()
ListItems(nodes) == [k \in 1..Len(nodes) |-> <<PyInt(k - 1), nodes[k]>>]
DictItems(nodes) == [k \in 1..Len(nodes) |-> <<Str(KeyNames[k]), nodes[k]>>]
ListModelOf(a, nodes) == Model("ListModel", a, ListItems(nodes))
DictModelOf(a, nodes) == Model("DictModel", a, DictItems(nodes))

PlainLeaves(a) == {Leaf(a, f) : f \in FuncNames}
Leaves(a) ==
    {Leaf(a, "inc")} \cup {WithSeverity(Leaf(a, f), s) : f \in {"pos", "none"}, s \in Severity}

Flat(a) ==
    LET seqs == SeqsUpTo(Leaves(a), MaxNodes)
    IN  {ChainOf(a, s) : s \in seqs} \cup {ListModelOf(a, s) : s \in seqs}
        \cup {DictModelOf(a, s) : s \in seqs} \cup {LoopOf(a, l) : l \in Leaves(a)}

\* containers of one leaf, used as children of other containers
Inner(a) ==
    LET base == {ChainOf(a, <<l>>) : l \in Leaves(a)} \cup {LoopOf(a, l) : l \in Leaves(a)}
                \cup {ListModelOf(a, <<l>>) : l \in Leaves(a)}
                \cup {DictModelOf(a, <<l>>) : l \in Leaves(a)}
    IN  {WithSeverity(c, s) : c \in base, s \in Severity}

Nested(a) ==
    {ChainOf(a, <<c, l>>) : c \in Inner(a), l \in PlainLeaves(a)}
    \cup {LoopOf(a, c) : c \in Inner(a)}
    \cup {ListModelOf(a, <<c>>) : c \in Inner(a)}

Trees == UNION {Leaves(a) \cup Flat(a) \cup Nested(a) : a \in BOOLEAN}

\* a loop is among the nodes that are handed the argument of the top-level call
RECURSIVE TakesSequence(_)
TakesSequence(node) ==
    CASE node.kind = "Loop" -> TRUE
      [] node.kind = "Node" -> FALSE
      [] node.kind = "Chain" -> node.nodes # <<>> /\ TakesSequence(node.nodes[1])
      [] OTHER -> \E k \in 1..Len(node.nodes) : TakesSequence(node.nodes[k])

\* the arguments a tree is called with: any input for a tree that iterates over
\* it, the integers and the empty list for the others
InputsOf(node) == IF TakesSequence(node) THEN Inputs ELSE Ints \cup {PyList(<<>>)}

(***************************************************************************)
(* Activation frames.  A frame is one call node(arg, reporter); its path   *)
(* is the position of the call: <<>> for the top-level call, p \o <<k>>    *)
(* for the k-th child call made by the frame at p.                         *)
(***************************************************************************)
Kid(p, k) == Append(p, k)
Parent(p) == SubSeq(p, 1, Len(p) - 1)

Frame(node, arg, reporter) ==
    [node |-> node, arg |-> arg, rep |-> reporter, pc |-> "start", i |-> 1,
     cur |-> arg, res |-> <<>>, ret |-> None, err |-> "-", arrived |-> <<>>]

\* BaseNode.__call__(arg, reporter): p identifies the Reporter object it creates
BaseNode_call(node, arg, reporter, p) == Frame(node, arg, Reporter(node.name, p))

\* the frame at p returns ret: a task of a gather reports its completion
Complete(fs, p, ret) ==
    LET done == [fs EXCEPT ![p].pc = "done", ![p].ret = ret]
    IN  IF p # <<>> /\ fs[Parent(p)].pc = "gather"
        THEN [done EXCEPT ![Parent(p)].arrived = Append(@, p[Len(p)])]
        ELSE done

\* the frame at p raises err
Fail(fs, p, err) ==
    LET done == [fs EXCEPT ![p].pc = "raised", ![p].err = err]
    IN  IF p # <<>> /\ fs[Parent(p)].pc = "gather"
        THEN [done EXCEPT ![Parent(p)].arrived = Append(@, p[Len(p)])]
        ELSE done

Running(p, kind) ==
    /\ phase = "running"
    /\ p \in DOMAIN frames
    /\ frames[p].node.kind = kind

(***************************************************************************)
(* The top-level call tree(input).                                         *)
(***************************************************************************)
Invoke ==
    /\ phase = "idle"
    /\ phase' = "running"
    /\ frames' = (<<>> :> BaseNode_call(tree, input, NoReporter, <<>>))
    /\ calls' = <<>>
    /\ reports' = EmptyBag
    /\ UNCHANGED <<tree, input, first, converted, buildVars, chainsVars>>

(***************************************************************************)
(* Node._process / AsyncNode._process                                      *)
(***************************************************************************)
Invoked(cs, p) == IF p \in DOMAIN cs THEN [cs EXCEPT ![p] = @ + 1] ELSE (p :> 1) @@ cs

\* result = self.func(arg): the callable starts (a coroutine may suspend before it ends)
NodeCall(p) ==
    /\ Running(p, "Node")
    /\ frames[p].pc = "start"
    /\ frames' = [frames EXCEPT ![p].pc = "called"]
    /\ calls' = Invoked(calls, p)
    /\ UNCHANGED <<tree, input, phase, reports, first, converted, buildVars, chainsVars>>

Node_result(out) == IF out.raises THEN None ELSE out.val

\* mutant: the failure is recorded with the default severity, not the leaf's own
Node_reports_default_severity(node, arg, reporter, out, p) ==
    IF out.raises
    THEN SetToBag({Failure(reporter, out.error, NORMAL, arg, p)})
    ELSE SetToBag({Success(reporter, arg, out.val, p)})

Node_reports(node, arg, reporter, out, p) ==
    IF out.raises
    THEN SetToBag({Failure(reporter, out.error, node.severity, arg, p)})
    ELSE SetToBag({Success(reporter, arg, out.val, p)})

\* the callable ends: except -> reporter.failure, else -> reporter.success; return
NodeReturn(p) ==
    /\ Running(p, "Node")
    /\ frames[p].pc = "called"
    /\ LET f == frames[p]
           out == Apply(f.node.func, f.arg)
       IN  /\ reports' = reports (+) Node_reports(f.node, f.arg, f.rep, out, p)
           /\ frames' = Complete(frames, p, Node_result(out))
    /\ UNCHANGED <<tree, input, phase, calls, first, converted, buildVars, chainsVars>>

(***************************************************************************)
(* Chain._process / AsyncChain._process                                    *)
(***************************************************************************)
\* mutant: the chain starts every remaining child at once, without awaiting any
ChainCall_eager(p) ==
    /\ Running(p, "Chain")
    /\ frames[p].pc = "start"
    /\ frames[p].i <= Len(frames[p].node.nodes)
    /\ LET f == frames[p]
           rest == {Kid(p, k) : k \in f.i..Len(f.node.nodes)}
           tasks == [q \in rest |->
                        BaseNode_call(f.node.nodes[q[Len(q)]], f.cur,
                                      Scoped(f.rep, f.node.name), q)]
       IN  frames' = tasks @@ [frames EXCEPT ![p].pc = "wait"]
    /\ UNCHANGED <<tree, input, phase, calls, reports, first, converted, buildVars, chainsVars>>

\* res = node(arg, reporter(self.name))
ChainCall(p) ==
    /\ Running(p, "Chain")
    /\ frames[p].pc = "start"
    /\ frames[p].i <= Len(frames[p].node.nodes)
    /\ LET f == frames[p]
           q == Kid(p, f.i)
       IN  frames' = (q :> BaseNode_call(f.node.nodes[f.i], f.cur,
                                          Scoped(f.rep, f.node.name), q))
                     @@ [frames EXCEPT ![p].pc = "wait"]
    /\ UNCHANGED <<tree, input, phase, calls, reports, first, converted, buildVars, chainsVars>>

\* mutant: only a REQUIRED child ends the chain
Chain_aborts_required_only(res, node) == res = None /\ node.severity = REQUIRED

\* if res is None: (continue when node.severity is OPTIONAL, else return)
Chain_aborts(res, node) == res = None /\ node.severity # OPTIONAL

\* mutant: arg = res even when res is None
Chain_arg_always_res(arg, res) == res

\* arg = res, unless res is None
Chain_arg(arg, res) == IF res = None THEN arg ELSE res

\* mutant: the chain stays on the same child
Chain_next_stuck(i) == i

\* for node in self.nodes: the position of the next child
Chain_next(i) == i + 1

ChainResume(p) ==
    /\ Running(p, "Chain")
    /\ frames[p].pc = "wait"
    /\ frames[Kid(p, frames[p].i)].pc = "done"
    /\ LET f == frames[p]
           res == frames[Kid(p, f.i)].ret
       IN  IF Chain_aborts(res, f.node.nodes[f.i])
           THEN frames' = Complete(frames, p, None)
           ELSE frames' = [frames EXCEPT ![p].pc = "start",
                                         ![p].cur = Chain_arg(f.cur, res),
                                         ![p].i = Chain_next(f.i)]
    /\ UNCHANGED <<tree, input, phase, calls, reports, first, converted, buildVars, chainsVars>>

\* return arg
ChainReturn(p) ==
    /\ Running(p, "Chain")
    /\ frames[p].pc = "start"
    /\ frames[p].i > Len(frames[p].node.nodes)
    /\ frames' = Complete(frames, p, frames[p].cur)
    /\ UNCHANGED <<tree, input, phase, calls, reports, first, converted, buildVars, chainsVars>>

\* an exception raised by the child called (or awaited) passes through the caller
Propagate(p) ==
    /\ phase = "running"
    /\ p \in DOMAIN frames
    /\ frames[p].pc = "wait"
    /\ frames[Kid(p, frames[p].i)].pc = "raised"
    /\ frames' = Fail(frames, p, frames[Kid(p, frames[p].i)].err)
    /\ UNCHANGED <<tree, input, phase, calls, reports, first, converted, buildVars, chainsVars>>

(***************************************************************************)
(* Loop._process / AsyncLoop._process                                      *)
(***************************************************************************)
Iterable(v) == v.t \in {"list", "dict"}
\* the elements `for arg in args` yields: a list's items, a dict's keys
Items(v) == IF v.t = "dict" THEN [k \in 1..Len(v.v) |-> v.v[k][1]] ELSE v.v

\* mutant: the comprehension without its filter
NotNone_unfiltered(results) == results

\* [res for res in results if res is not None]
NotNone(results) == SelectSeq(results, LAMBDA r : r # None)

\* iterating over a value that is not iterable raises TypeError
LoopTypeError(p) ==
    /\ Running(p, "Loop")
    /\ frames[p].pc = "start"
    /\ ~Iterable(frames[p].arg)
    /\ frames' = Fail(frames, p, "TypeError")
    /\ UNCHANGED <<tree, input, phase, calls, reports, first, converted, buildVars, chainsVars>>

\* node(arg, reporter) for the next arg in args
LoopCall(p) ==
    /\ Running(p, "Loop")
    /\ ~frames[p].node.async
    /\ frames[p].pc = "start"
    /\ Iterable(frames[p].arg)
    /\ frames[p].i <= Len(Items(frames[p].arg))
    /\ LET f == frames[p]
           q == Kid(p, f.i)
       IN  frames' = (q :> BaseNode_call(f.node.nodes[1], Items(f.arg)[f.i], f.rep, q))
                     @@ [frames EXCEPT ![p].pc = "wait"]
    /\ UNCHANGED <<tree, input, phase, calls, reports, first, converted, buildVars, chainsVars>>

LoopResume(p) ==
    /\ Running(p, "Loop")
    /\ frames[p].pc = "wait"
    /\ frames[Kid(p, frames[p].i)].pc = "done"
    /\ frames' = [frames EXCEPT ![p].pc = "start",
                                ![p].res = Append(@, frames[Kid(p, frames[p].i)].ret),
                                ![p].i = @ + 1]
    /\ UNCHANGED <<tree, input, phase, calls, reports, first, converted, buildVars, chainsVars>>

LoopReturn(p) ==
    /\ Running(p, "Loop")
    /\ ~frames[p].node.async
    /\ frames[p].pc = "start"
    /\ Iterable(frames[p].arg)
    /\ frames[p].i > Len(Items(frames[p].arg))
    /\ frames' = Complete(frames, p, PyList(NotNone(frames[p].res)))
    /\ UNCHANGED <<tree, input, phase, calls, reports, first, converted, buildVars, chainsVars>>

\* asyncio.create_task(node(arg, reporter)) for every arg in args, then gather
AsyncLoopSpawn(p) ==
    /\ Running(p, "Loop")
    /\ frames[p].node.async
    /\ frames[p].pc = "start"
    /\ Iterable(frames[p].arg)
    /\ LET f == frames[p]
           n == Len(Items(f.arg))
           tasks == [q \in {Kid(p, k) : k \in 1..n} |->
                        BaseNode_call(f.node.nodes[1], Items(f.arg)[q[Len(q)]], f.rep, q)]
       IN  frames' = tasks @@ [frames EXCEPT ![p].pc = "gather", ![p].i = n]
    /\ UNCHANGED <<tree, input, phase, calls, reports, first, converted, buildVars, chainsVars>>

\* mutant: the results in the order the tasks completed
gather_completion_order(rets, arrived) == [j \in 1..Len(arrived) |-> rets[arrived[j]]]

\* the list `await asyncio.gather(*tasks)` yields: rets[k] is the result of the
\* k-th task passed, arrived the order in which the tasks completed
gather(rets, arrived) == rets

TaskResults(p) == [k \in 1..frames[p].i |-> frames[Kid(p, k)].ret]

\* mutant: the join ends as soon as one task has completed
AllDone_any(p) ==
    /\ frames[p].pc = "gather"
    /\ \E k \in 1..frames[p].i : frames[Kid(p, k)].pc = "done"

AllDone(p) ==
    /\ frames[p].pc = "gather"
    /\ \A k \in 1..frames[p].i : frames[Kid(p, k)].pc = "done"

AsyncLoopJoin(p) ==
    /\ Running(p, "Loop")
    /\ AllDone(p)
    /\ frames' = Complete(frames, p,
                          PyList(NotNone(gather(TaskResults(p), frames[p].arrived))))
    /\ UNCHANGED <<tree, input, phase, calls, reports, first, converted, buildVars, chainsVars>>

\* gather passes the first exception of a task on to its awaiter; the other tasks go on
GatherRaise(p) ==
    /\ phase = "running"
    /\ p \in DOMAIN frames
    /\ frames[p].pc = "gather"
    /\ \E j \in 1..Len(frames[p].arrived) :
          /\ frames[Kid(p, frames[p].arrived[j])].pc = "raised"
          /\ \A h \in 1..(j - 1) : frames[Kid(p, frames[p].arrived[h])].pc # "raised"
          /\ frames' = Fail(frames, p, frames[Kid(p, frames[p].arrived[j])].err)
    /\ UNCHANGED <<tree, input, phase, calls, reports, first, converted, buildVars, chainsVars>>

(***************************************************************************)
(* Model._process / AsyncModel._process and the two conversions            *)
(***************************************************************************)
\* if not (result is None and severity is OPTIONAL)
Model_keeps(result, severity) == ~(result = None /\ severity = OPTIONAL)

\* (branch, result) for branch, result, severity in triples if ...
Model_filter(triples) ==
    LET kept == SelectSeq(triples, LAMBDA x : Model_keeps(x[2], x[3]))
    IN  [k \in 1..Len(kept) |-> <<kept[k][1], kept[k][2]>>]

list_converter(results) == PyList([k \in 1..Len(results) |-> results[k][2]])

\* d[branch] = result: a key already present keeps its place and takes the new value
DictSet(d, branch, result) ==
    IF \E k \in 1..Len(d) : d[k][1] = branch
    THEN [k \in 1..Len(d) |-> IF d[k][1] = branch THEN <<branch, result>> ELSE d[k]]
    ELSE Append(d, <<branch, result>>)

RECURSIVE DictOf(_, _)
DictOf(d, results) ==
    IF results = <<>> THEN d
    ELSE DictOf(DictSet(d, Head(results)[1], Head(results)[2]), Tail(results))

dict_converter(results) == PyDict(DictOf(<<>>, results))

convert(node, results) ==
    IF node.kind = "ListModel" THEN list_converter(results) ELSE dict_converter(results)

\* node(arg, reporter(branch)) for the next (branch, node) of self.nodes
ModelCall(p) ==
    /\ phase = "running"
    /\ p \in DOMAIN frames
    /\ IsModel(frames[p].node)
    /\ ~frames[p].node.async
    /\ frames[p].pc = "start"
    /\ frames[p].i <= Len(frames[p].node.nodes)
    /\ LET f == frames[p]
           q == Kid(p, f.i)
           item == Pairs(f.node)[f.i]
       IN  frames' = (q :> BaseNode_call(item[2], f.arg, Scoped(f.rep, item[1]), q))
                     @@ [frames EXCEPT ![p].pc = "wait"]
    /\ UNCHANGED <<tree, input, phase, calls, reports, first, converted, buildVars, chainsVars>>

ModelResume(p) ==
    /\ phase = "running"
    /\ p \in DOMAIN frames
    /\ IsModel(frames[p].node)
    /\ frames[p].pc = "wait"
    /\ frames[Kid(p, frames[p].i)].pc = "done"
    /\ LET f == frames[p]
           item == Pairs(f.node)[f.i]
       IN  frames' = [frames EXCEPT
                        ![p].pc = "start",
                        ![p].res = Append(@, <<item[1], frames[Kid(p, f.i)].ret,
                                               item[2].severity>>),
                        ![p].i = @ + 1]
    /\ UNCHANGED <<tree, input, phase, calls, reports, first, converted, buildVars, chainsVars>>

ModelReturn(p) ==
    /\ phase = "running"
    /\ p \in DOMAIN frames
    /\ IsModel(frames[p].node)
    /\ ~frames[p].node.async
    /\ frames[p].pc = "start"
    /\ frames[p].i > Len(frames[p].node.nodes)
    /\ frames' = Complete(frames, p, convert(frames[p].node, Model_filter(frames[p].res)))
    /\ UNCHANGED <<tree, input, phase, calls, reports, first, converted, buildVars, chainsVars>>

\* branches, severities, tasks = zip(*[...]) with no branch: nothing to unpack
AsyncModelUnpackError(p) ==
    /\ phase = "running"
    /\ p \in DOMAIN frames
    /\ IsModel(frames[p].node)
    /\ frames[p].node.async
    /\ frames[p].pc = "start"
    /\ frames[p].node.nodes = <<>>
    /\ frames' = Fail(frames, p, "ValueError")
    /\ UNCHANGED <<tree, input, phase, calls, reports, first, converted, buildVars, chainsVars>>

\* asyncio.create_task(node(arg, reporter(branch))) for every branch
AsyncModelSpawn(p) ==
    /\ phase = "running"
    /\ p \in DOMAIN frames
    /\ IsModel(frames[p].node)
    /\ frames[p].node.async
    /\ frames[p].pc = "start"
    /\ frames[p].node.nodes # <<>>
    /\ LET f == frames[p]
           n == Len(f.node.nodes)
           tasks == [q \in {Kid(p, k) : k \in 1..n} |->
                        BaseNode_call(Pairs(f.node)[q[Len(q)]][2], f.arg,
                                      Scoped(f.rep, Pairs(f.node)[q[Len(q)]][1]), q)]
       IN  frames' = tasks @@ [frames EXCEPT ![p].pc = "gather", ![p].i = n]
    /\ UNCHANGED <<tree, input, phase, calls, reports, first, converted, buildVars, chainsVars>>

\* zip(branches, await asyncio.gather(*tasks), severities, strict=True)
AsyncModel_zip(nodes, results) ==
    [k \in 1..Len(nodes) |-> <<nodes[k][1], results[k], nodes[k][2].severity>>]

AsyncModelJoin(p) ==
    /\ phase = "running"
    /\ p \in DOMAIN frames
    /\ IsModel(frames[p].node)
    /\ AllDone(p)
    /\ LET f == frames[p]
           results == gather(TaskResults(p), f.arrived)
       IN  frames' = Complete(frames, p,
                              convert(f.node, Model_filter(AsyncModel_zip(Pairs(f.node), results))))
    /\ UNCHANGED <<tree, input, phase, calls, reports, first, converted, buildVars, chainsVars>>

(***************************************************************************)
(* The end of the top-level call, and the concurrent re-run of a           *)
(* synchronous tree: tree.to_async() called on the same input.             *)
(***************************************************************************)
Outcome(f) == [raised |-> f.pc = "raised", val |-> f.ret, err |-> f.err]
NoOutcome == [raised |-> FALSE, val |-> None, err |-> "pending"]

Settled == <<>> \in DOMAIN frames /\ frames[<<>>].pc \in {"done", "raised"}

Finish ==
    /\ phase = "running"
    /\ Settled
    /\ phase' = "finished"
    /\ UNCHANGED <<tree, input, frames, calls, reports, first, converted, buildVars, chainsVars>>

ToAsync ==
    /\ phase = "finished"
    /\ ~tree.async
    /\ to_async(tree) # TypeError
    /\ tree' = to_async(tree)
    /\ first' = Outcome(frames[<<>>])
    /\ converted' = TRUE
    /\ phase' = "idle"
    /\ UNCHANGED <<input, frames, calls, reports, buildVars, chainsVars>>

ToAsyncTypeError ==
    /\ phase = "finished"
    /\ ~tree.async
    /\ to_async(tree) = TypeError
    /\ phase' = "unconvertible"
    /\ first' = Outcome(frames[<<>>])
    /\ UNCHANGED <<tree, input, frames, calls, reports, converted, buildVars, chainsVars>>

\* the variables of the specifications a specification does not use stay fixed
RunIdle ==
    /\ tree = None
    /\ input = None
    /\ phase = "off"
    /\ frames = <<>>
    /\ calls = <<>>
    /\ reports = EmptyBag
    /\ first = NoOutcome
    /\ converted = FALSE
BuildIdle == heap = <<>> /\ made = None
\* no operation of chains.py has run yet
NoLast ==
    [op |-> "none", name |-> None, chain |-> 0, err |-> "-", stage |-> "-",
     found |-> {}, success |-> TRUE, called |-> <<>>, exposed |-> <<>>]
ChainsIdle == registry = <<>> /\ wrappers = <<>> /\ history = <<>> /\ last = NoLast

Init ==
    /\ tree \in Trees
    /\ input \in InputsOf(tree)
    /\ phase = "idle"
    /\ frames = <<>>
    /\ calls = <<>>
    /\ reports = EmptyBag
    /\ first = NoOutcome
    /\ converted = FALSE
    /\ BuildIdle
    /\ ChainsIdle

Paths == IF phase = "running" THEN DOMAIN frames ELSE {}

Next ==
    \/ Invoke
    \/ \E p \in Paths : NodeCall(p)
    \/ \E p \in Paths : NodeReturn(p)
    \/ \E p \in Paths : ChainCall(p)
    \/ \E p \in Paths : ChainResume(p)
    \/ \E p \in Paths : ChainReturn(p)
    \/ \E p \in Paths : Propagate(p)
    \/ \E p \in Paths : LoopTypeError(p)
    \/ \E p \in Paths : LoopCall(p)
    \/ \E p \in Paths : LoopResume(p)
    \/ \E p \in Paths : LoopReturn(p)
    \/ \E p \in Paths : AsyncLoopSpawn(p)
    \/ \E p \in Paths : AsyncLoopJoin(p)
    \/ \E p \in Paths : GatherRaise(p)
    \/ \E p \in Paths : ModelCall(p)
    \/ \E p \in Paths : ModelResume(p)
    \/ \E p \in Paths : ModelReturn(p)
    \/ \E p \in Paths : AsyncModelUnpackError(p)
    \/ \E p \in Paths : AsyncModelSpawn(p)
    \/ \E p \in Paths : AsyncModelJoin(p)
    \/ Finish
    \/ ToAsync
    \/ ToAsyncTypeError

Spec == Init /\ [][Next]_vars

(***************************************************************************)
(* Chainables: what nd, build, async_build and the operators | and * take: *)
(* a node, a callable, a list or a dict of chainables (and anything else,  *)
(* which is unsupported).                                                  *)
(***************************************************************************)
MaxOps == 2     \* operations applied to node objects in one behaviour

Callable(func) == [t |-> "callable", v |-> func]
NodeObj(node) == [t |-> "node", v |-> node]
Tuple(s) == [t |-> "tuple", v |-> s]

get_name(func) == Str(func.fn)
get_varname == NoName
validate_name(name) == name

\* the exceptions of the builders, shown as nodes like TypeError above
ValueError == BaseNode("ValueError", TRUE, NoName)
IsError(node) == node.kind \in {"TypeError", "ValueError"}
FirstError(nodes) == nodes[CHOOSE k \in 1..Len(nodes) :
                              IsError(nodes[k]) /\ \A j \in 1..(k - 1) : ~IsError(nodes[j])]

\* any(map(is_node_async, obj.items() if isinstance(obj, dict) else obj)): the
\* items of a dict are (key, value) tuples, neither nodes, callables, lists nor dicts
RECURSIVE is_node_async(_)
is_node_async(obj) ==
    CASE obj.t = "node" -> obj.v.async
      [] obj.t = "callable" -> is_async(obj.v)
      [] obj.t = "list" -> \E k \in 1..Len(obj.v) : is_node_async(obj.v[k])
      [] obj.t = "dict" -> \E k \in 1..Len(obj.v) : is_node_async(Tuple(obj.v[k]))
      [] OTHER -> FALSE

\* build: the list / dict branch computes (branches, items) by unpacking a zip,
\* which fails on an empty collection, and then falls through to the final raise
build(obj) ==
    CASE obj.t = "node" -> IF obj.v.async THEN TypeError ELSE copy(obj.v)
      [] obj.t = "callable" ->
            IF is_async(obj.v) THEN TypeError ELSE Node(obj.v, get_name(obj.v))
      [] obj.t \in {"list", "dict"} -> IF obj.v = <<>> THEN ValueError ELSE TypeError
      [] OTHER -> TypeError

RECURSIVE async_build(_)
async_build(obj) ==
    CASE obj.t = "node" -> to_async(obj.v)
      [] obj.t = "callable" -> AsyncNode(asyncify(obj.v), get_name(obj.v))
      [] obj.t = "dict" ->
            LET kids == [k \in 1..Len(obj.v) |-> async_build(obj.v[k][2])]
            IN  IF \E k \in 1..Len(kids) : IsError(kids[k])
                THEN FirstError(kids)
                ELSE AsyncDictModel([k \in 1..Len(kids) |-> <<obj.v[k][1], kids[k]>>])
      [] obj.t = "list" ->
            LET kids == [k \in 1..Len(obj.v) |-> async_build(obj.v[k])]
            IN  IF \E k \in 1..Len(kids) : IsError(kids[k])
                THEN FirstError(kids)
                ELSE AsyncListModel(ListItems(kids))
      [] OTHER -> TypeError

nd(obj) ==
    IF obj = None THEN Chain(<<>>, NoName)
    ELSE IF is_node_async(obj) THEN async_build(obj) ELSE build(obj)

(***************************************************************************)
(* Node objects.  heap[o] holds the slots of object o, its children by id; *)
(* a constructor call appends a new object.                                *)
(***************************************************************************)
RECURSIVE Deref(_, _)
\* the tree of values below object o
Deref(h, o) == [h[o] EXCEPT !.nodes = [k \in 1..Len(h[o].nodes) |-> Deref(h, h[o].nodes[k])]]

\* the constructor calls that make the objects of a tree, children first
RECURSIVE Alloc(_, _)
RECURSIVE AllocAll(_, _)
AllocAll(h, trees) ==
    IF trees = <<>> THEN [h |-> h, ids |-> <<>>]
    ELSE LET a == Alloc(h, Head(trees))
             r == AllocAll(a.h, Tail(trees))
         IN  [h |-> r.h, ids |-> <<a.id>> \o r.ids]
Alloc(h, node) ==
    LET kids == AllocAll(h, node.nodes)
    IN  [h |-> Append(kids.h, [node EXCEPT !.nodes = kids.ids]), id |-> Len(kids.h) + 1]

\* what an operation gives: the heap after it, and the object returned or the error
Gave(h, id) == [h |-> h, id |-> id, err |-> "-"]
Raised(h, err) == [h |-> h, id |-> 0, err |-> err]
New(h, node) ==
    IF IsError(node) THEN Raised(h, node.kind)
    ELSE LET a == Alloc(h, node) IN Gave(a.h, a.id)

RECURSIVE SumLenOf(_, _)
SumLenOf(h, ids) == IF ids = <<>> THEN 0 ELSE h[Head(ids)].len + SumLenOf(h, Tail(ids))

\* Chain(*nodes, name=name) / AsyncChain(*nodes, name=name) over existing objects
Chain_init(h, async, ids, name) ==
    LET obj == [BaseNode("Chain", async, name) EXCEPT !.nodes = ids,
                                                      !.len = SumLenOf(h, ids)]
    IN  Gave(Append(h, obj), Len(h) + 1)

\* mutant: copy() hands back the receiver
BaseNode_copy_self(h, o) == Gave(h, o)

\* new = self.copy()
BaseNode_copy(h, o) == New(h, copy(Deref(h, o)))

\* new.severity = severity; return new
BaseNode_severity(h, o, severity) ==
    LET new == BaseNode_copy(h, o)
    IN  [new EXCEPT !.h[new.id].severity = severity]

\* new.name = validate_name(name); return new
BaseNode_named(h, o, name) ==
    LET new == BaseNode_copy(h, o)
    IN  [new EXCEPT !.h[new.id].name = validate_name(name)]

BaseNode_to_async(h, o) == New(h, to_async(Deref(h, o)))

\* the node appended by | (build(other)) or by * (Loop(build(other)))
Item(built, loop) ==
    IF IsError(built) THEN built
    ELSE IF ~loop THEN built
    ELSE IF built.async THEN AsyncLoop(built) ELSE Loop(built)

\* AsyncChain.__or__ / __mul__
AsyncChain_extend(h, c, other, loop) ==
    LET b == New(h, Item(async_build(other), loop))
    IN  IF b.err # "-" THEN Raised(h, b.err)
        ELSE Chain_init(b.h, TRUE, Append(h[c].nodes, b.id), h[c].name)

\* Chain.__or__ / __mul__
Chain_extend(h, c, other, loop) ==
    IF is_node_async(other)
    THEN LET t == BaseNode_to_async(h, c)
         IN  IF t.err # "-" THEN Raised(h, t.err)
             ELSE LET r == AsyncChain_extend(t.h, t.id, other, loop)
                  IN  IF r.err # "-" THEN Raised(h, r.err) ELSE r
    ELSE LET b == New(h, Item(build(other), loop))
         IN  IF b.err # "-" THEN Raised(h, b.err)
             ELSE Chain_init(b.h, FALSE, Append(h[c].nodes, b.id), h[c].name)

\* BaseNode.__or__ / __mul__: Chain(self, name=get_varname()) | other
BaseNode_extend(h, o, other, loop) ==
    LET t == Chain_init(h, FALSE, <<o>>, get_varname)
        r == Chain_extend(t.h, t.id, other, loop)
    IN  IF r.err # "-" THEN Raised(h, r.err) ELSE r

\* o | other and o * other, by the class of o
Extend(h, o, other, loop) ==
    IF h[o].kind # "Chain" THEN BaseNode_extend(h, o, other, loop)
    ELSE IF h[o].async THEN AsyncChain_extend(h, o, other, loop)
    ELSE Chain_extend(h, o, other, loop)

(***************************************************************************)
(* The operations on node objects, one action each.  made.roots are the    *)
(* objects the caller holds: the node it started with and every node an    *)
(* operation returned.                                                     *)
(***************************************************************************)
NoOp(left) ==
    [op |-> "none", self |-> 0, other |-> None, result |-> 0, err |-> "-",
     n |-> MaxOps - left, roots |-> {}]

Did(op, o, other, r) ==
    /\ heap' = r.h
    /\ made' = [op |-> op, self |-> o, other |-> other, result |-> r.id, err |-> r.err,
                n |-> made.n + 1,
                roots |-> IF r.err = "-" THEN made.roots \cup {r.id} ELSE made.roots]
    /\ UNCHANGED <<runVars, chainsVars>>

Held(o) == made.n < MaxOps /\ o \in made.roots

DoCopy(o) == Held(o) /\ Did("copy", o, None, BaseNode_copy(heap, o))
DoOptional(o) == Held(o) /\ Did("optional", o, None, BaseNode_severity(heap, o, OPTIONAL))
DoRequired(o) == Held(o) /\ Did("required", o, None, BaseNode_severity(heap, o, REQUIRED))
DoNamed(o, name) == Held(o) /\ Did("named", o, name, BaseNode_named(heap, o, name))
DoToAsync(o) == Held(o) /\ Did("to_async", o, None, BaseNode_to_async(heap, o))
DoOr(o, other) == Held(o) /\ Did("or", o, other, Extend(heap, o, other, FALSE))
DoMul(o, other) == Held(o) /\ Did("mul", o, other, Extend(heap, o, other, TRUE))
DoNd(obj) == made.n < MaxOps /\ Did("nd", 0, obj, New(heap, nd(obj)))
DoBuild(obj) == made.n < MaxOps /\ Did("build", 0, obj, New(heap, build(obj)))
DoAsyncBuild(obj) == made.n < MaxOps /\ Did("async_build", 0, obj, New(heap, async_build(obj)))

\* the caller assigns to an attribute of the node the last operation returned
Assigned(attr, value) ==
    /\ made.n < MaxOps
    /\ made.op \notin {"none", "severity", "name"}
    /\ made.err = "-"
    /\ made' = [made EXCEPT !.op = attr, !.other = value, !.n = @ + 1]
    /\ UNCHANGED <<runVars, chainsVars>>

AssignSeverity(severity) ==
    /\ Assigned("severity", Str(severity))
    /\ heap' = [heap EXCEPT ![made.result].severity = severity]

AssignName(name) ==
    /\ Assigned("name", name)
    /\ heap' = [heap EXCEPT ![made.result].name = name]

\* the nodes an operation is applied to, the names given, the chainables composed
Subjects ==
    UNION {{Leaf(a, "inc"), optional(Leaf(a, "pos")),
            ChainOf(a, <<optional(Leaf(a, "pos")), Leaf(a, "inc")>>),
            required(LoopOf(a, optional(Leaf(a, "pos")))),
            optional(DictModelOf(a, <<required(Leaf(a, "inc"))>>))} : a \in BOOLEAN}

NewNames == {Str("n")}

Atoms ==
    {Callable(Fn("inc")), Callable(asyncify(Fn("inc"))),
     NodeObj(optional(Leaf(FALSE, "pos"))), NodeObj(Leaf(TRUE, "inc"))}
ListsOf(S) == {PyList(<<x>>) : x \in S} \cup {PyList(<<x, y>>) : x, y \in S}
DictsOf(S) ==
    {PyDict(<<<<Str("a"), x>>>>) : x \in S}
    \cup {PyDict(<<<<Str("a"), x>>, <<Str("b"), y>>>>) : x, y \in S}
Operands ==
    Atoms \cup {PyList(<<x>>) : x \in Atoms} \cup {PyDict(<<<<Str("a"), x>>>>) : x \in Atoms}
Chainables ==
    LET flat == ListsOf(Atoms) \cup DictsOf(Atoms)
        single == {PyList(<<x>>) : x \in Atoms} \cup {PyDict(<<<<Str("a"), x>>>>) : x \in Atoms}
    IN  Atoms \cup flat \cup {PyList(<<>>), PyDict(<<>>), PyInt(0)}
        \cup {PyList(<<x>>) : x \in single} \cup {PyDict(<<<<Str("a"), x>>>>) : x \in single}

BuildStart(left) ==
    /\ RunIdle
    /\ ChainsIdle
    /\ \E node \in Subjects :
          LET a == Alloc(<<>>, node)
          IN  /\ heap = a.h
              /\ made = [NoOp(left) EXCEPT !.roots = {a.id}]

BuildInit == BuildStart(MaxOps)

BuildNext ==
    \/ \E o \in made.roots : DoCopy(o)
    \/ \E o \in made.roots : DoOptional(o)
    \/ \E o \in made.roots : DoRequired(o)
    \/ \E o \in made.roots, name \in NewNames : DoNamed(o, name)
    \/ \E o \in made.roots : DoToAsync(o)
    \/ \E o \in made.roots, other \in Operands : DoOr(o, other)
    \/ \E o \in made.roots, other \in Operands : DoMul(o, other)
    \/ \E severity \in Severity : AssignSeverity(severity)
    \/ \E name \in NewNames : AssignName(name)

BuildSpec == BuildInit /\ [][BuildNext]_vars

\* one composition of a node, or of nothing, with a chainable
NdInit == BuildStart(1)

NdNext ==
    \/ \E obj \in Chainables \cup {None} : DoNd(obj)
    \/ \E obj \in Chainables : DoBuild(obj)
    \/ \E obj \in Chainables : DoAsyncBuild(obj)
    \/ \E o \in made.roots, other \in Chainables : DoOr(o, other)
    \/ \E o \in made.roots, other \in Chainables : DoMul(o, other)

NdSpec == NdInit /\ [][NdNext]_vars

(***************************************************************************)
(* src/fastchain/chains.py.  A str is the sequence of its characters.      *)
(***************************************************************************)
MaxChars == 4       \* the names validated have at most MaxChars characters
MaxDepth == 2       \* the names registered have at most MaxDepth parts
MaxChains == 3      \* chains made in one behaviour
MaxHandlers == 3    \* handlers a chain holds for its failures

Letters == {"a", "b"}
Digits == {"1"}
\* \w: letters, digits and the underscore
IsWord(c) == c \in Letters \cup Digits \cup {"_"}

RECURSIVE split(_, _)
\* str.split(sep)
split(s, sep) ==
    IF \A i \in 1..Len(s) : s[i] # sep THEN <<s>>
    ELSE LET i == CHOOSE k \in 1..Len(s) : s[k] = sep /\ \A j \in 1..(k - 1) : s[j] # sep
         IN  <<SubSeq(s, 1, i - 1)>> \o split(SubSeq(s, i + 1, Len(s)), sep)

\* $: the end of the string, or the place before a newline that ends the string
AtEnd(s, i) == i = Len(s) + 1 \/ (i = Len(s) /\ s[i] = "\n")

RECURSIVE Groups(_, _)
\* (?:\w+[_-]?)*?$ matches s from position i on
Groups(s, i) ==
    \/ AtEnd(s, i)
    \/ \E j \in i..Len(s) :
          /\ \A k \in i..j : IsWord(s[k])
          /\ \/ Groups(s, j + 1)
             \/ j + 1 <= Len(s) /\ s[j + 1] \in {"_", "-"} /\ Groups(s, j + 2)

\* VALID_NAME.match(s), VALID_NAME = re.compile(r'^[a-z](?:\w+[_-]?)*?$', re.IGNORECASE)
VALID_NAME(s) == s # <<>> /\ s[1] \in Letters /\ Groups(s, 2)

(***************************************************************************)
(* _registry_: a dict of dicts, kept as the map from the path of keys to   *)
(* what the key is bound to: a chain (by id) or a dict.                    *)
(***************************************************************************)
ChainAt(id) == [t |-> "chain", v |-> id]
DictAt == [t |-> "dict", v |-> 0]

Registered(reg, err) == [reg |-> reg, err |-> err]

\* mutant: a name bound to a namespace is bound again, to the chain
RECURSIVE register_over(_, _, _, _, _)
register_over(reg, at, names, pos, chain) ==
    LET key == Append(at, names[pos])
        end == pos = Len(names)
    IN  IF key \in DOMAIN reg /\ reg[key].t # "dict"
        THEN Registered(reg, "ValueError")
        ELSE IF end THEN Registered((key :> ChainAt(chain)) @@ reg, "-")
        ELSE register_over(IF key \notin DOMAIN reg THEN (key :> DictAt) @@ reg ELSE reg,
                           key, names, pos + 1, chain)

RECURSIVE register(_, _, _, _, _)
\* _register(names, chain), from position pos on, reg being the dict at path `at`
register(reg, at, names, pos, chain) ==
    LET key == Append(at, names[pos])
        end == pos = Len(names)
    IN  IF key \in DOMAIN reg /\ (end \/ reg[key].t # "dict")
        THEN Registered(reg, "ValueError")
        ELSE IF end THEN Registered((key :> ChainAt(chain)) @@ reg, "-")
        ELSE register(IF key \notin DOMAIN reg THEN (key :> DictAt) @@ reg ELSE reg,
                      key, names, pos + 1, chain)

RECURSIVE get_components(_, _)
\* _get_components(source), source being what is at path `at` (the root: _registry_)
get_components(reg, at) ==
    IF at # <<>> /\ reg[at].t = "chain" THEN {reg[at].v}
    ELSE UNION {get_components(reg, key) :
                   key \in {k \in DOMAIN reg : Len(k) = Len(at) + 1 /\ SubSeq(k, 1, Len(at)) = at}}

\* mutant: the lookup does not stop at a chain met before the last part
RECURSIVE get_from_through(_, _, _, _)
get_from_through(reg, at, names, pos) ==
    IF pos > Len(names) THEN get_components(reg, at)
    ELSE LET key == Append(at, names[pos])
         IN  IF key \notin DOMAIN reg THEN {}
             ELSE IF reg[key].t # "dict" THEN {reg[key].v}
             ELSE get_from_through(reg, key, names, pos + 1)

RECURSIVE get_from(_, _, _, _)
\* the loop of get: target = target.get(name_part), from position pos on
get_from(reg, at, names, pos) ==
    IF pos > Len(names) THEN get_components(reg, at)
    ELSE LET key == Append(at, names[pos])
             isdict == key \in DOMAIN reg /\ reg[key].t = "dict"
         IN  IF ~isdict /\ pos < Len(names) THEN {}
             ELSE IF key \notin DOMAIN reg THEN {}
             ELSE get_from(reg, key, names, pos + 1)

\* get(name): names = [] when name is None, else name.split('.')
get(reg, name) == get_from(reg, <<>>, IF name = None THEN <<>> ELSE split(name.v, "."), 1)

(***************************************************************************)
(* The chain object of chains.py.  A handler is known by its name; the     *)
(* core comes from the factory and answers a call with (success, result).  *)
(***************************************************************************)
Unregistered == Str(<<"u", "n", "r", "e", "g", "i", "s", "t", "e", "r", "e", "d">>)

\* Chain.__init__(core, name, nodes, required_nodes)
Wrapper(name, nodes, required_nodes) ==
    [name |-> IF name # None THEN name ELSE Unregistered,
     total_nodes |-> nodes,
     required_nodes |-> required_nodes,
     report_handlers |-> [always \in BOOLEAN |-> <<>>]]

\* mutant: a handler is kept either for every call or for the failures
add_report_handler_either(chain, handler, always) ==
    [chain EXCEPT !.report_handlers[always] = Append(@, handler)]

\* Chain.add_report_handler(handler, always)
add_report_handler(chain, handler, always) ==
    LET kept == IF always
                THEN [chain EXCEPT !.report_handlers[TRUE] = Append(@, handler)]
                ELSE chain
    IN  [kept EXCEPT !.report_handlers[FALSE] = Append(@, handler)]

\* Chain.clear_report_handlers()
clear_report_handlers(chain) == [chain EXCEPT !.report_handlers = [always \in BOOLEAN |-> <<>>]]

\* Chain.__call__(input): the handlers called, in order, the core having
\* answered success
Wrapper_call(chain, success) == chain.report_handlers[success]

\* countOf(nodes.values(), True)
countOf(values, value) == Cardinality({i \in 1..Len(values) : values[i] = value})

Made(err, stage, chain, ws, reg) ==
    [err |-> err, stage |-> stage, chain |-> chain, wrappers |-> ws, registry |-> reg]

\* mutant: the chain is registered before the exposed nodes are looked at
make_registers_first(ws, reg, name, exposed, log_failures, print_stats, registering) ==
    LET names == IF name = None THEN <<>> ELSE split(name.v, ".")
    IN  IF name # None /\ name.v = <<>> THEN Made("ValueError", "name", 0, ws, reg)
        ELSE IF \E i \in 1..Len(names) : ~VALID_NAME(names[i])
        THEN Made("ValueError", "name", 0, ws, reg)
        ELSE LET new == Wrapper(name, Len(exposed), countOf(exposed, TRUE))
                 logged == IF log_failures
                           THEN add_report_handler(new, "failures_logger", TRUE) ELSE new
                 chain == IF print_stats
                          THEN add_report_handler(logged, "print_report", TRUE) ELSE logged
                 id == Len(ws) + 1
                 done == IF name # None /\ registering
                         THEN register(reg, <<>>, names, 1, id)
                         ELSE Registered(reg, "-")
             IN  IF done.err # "-" THEN Made(done.err, "register", 0, ws, done.reg)
                 ELSE IF exposed = <<>> \/ \A i \in 1..Len(exposed) : ~exposed[i]
                 THEN Made("ValueError", "nodes", 0, ws, done.reg)
                 ELSE Made("-", "-", id, Append(ws, chain), done.reg)

\* mutant: a tree with nodes is accepted, required or not
make_any_nodes(ws, reg, name, exposed, log_failures, print_stats, registering) ==
    LET names == IF name = None THEN <<>> ELSE split(name.v, ".")
    IN  IF name # None /\ name.v = <<>> THEN Made("ValueError", "name", 0, ws, reg)
        ELSE IF \E i \in 1..Len(names) : ~VALID_NAME(names[i])
        THEN Made("ValueError", "name", 0, ws, reg)
        ELSE IF exposed = <<>> THEN Made("ValueError", "nodes", 0, ws, reg)
        ELSE LET new == Wrapper(name, Len(exposed), countOf(exposed, TRUE))
                 logged == IF log_failures
                           THEN add_report_handler(new, "failures_logger", TRUE) ELSE new
                 chain == IF print_stats
                          THEN add_report_handler(logged, "print_report", TRUE) ELSE logged
                 id == Len(ws) + 1
                 done == IF name # None /\ registering
                         THEN register(reg, <<>>, names, 1, id)
                         ELSE Registered(reg, "-")
             IN  IF done.err # "-" THEN Made(done.err, "register", 0, ws, done.reg)
                 ELSE Made("-", "-", id, Append(ws, chain), done.reg)

\* make(*components, name, log_failures, print_stats, register), where
\* `exposed` is parse(components).expose.values(), ws the chains made so far
make(ws, reg, name, exposed, log_failures, print_stats, registering) ==
    LET names == IF name = None THEN <<>> ELSE split(name.v, ".")
    IN  IF name # None /\ name.v = <<>> THEN Made("ValueError", "name", 0, ws, reg)
        ELSE IF \E i \in 1..Len(names) : ~VALID_NAME(names[i])
        THEN Made("ValueError", "name", 0, ws, reg)
        ELSE IF exposed = <<>> THEN Made("ValueError", "nodes", 0, ws, reg)
        ELSE IF \A i \in 1..Len(exposed) : ~exposed[i]
        THEN Made("ValueError", "nodes", 0, ws, reg)
        ELSE LET new == Wrapper(name, Len(exposed), countOf(exposed, TRUE))
                 logged == IF log_failures
                           THEN add_report_handler(new, "failures_logger", TRUE) ELSE new
                 chain == IF print_stats
                          THEN add_report_handler(logged, "print_report", TRUE) ELSE logged
                 id == Len(ws) + 1
                 done == IF name # None /\ registering
                         THEN register(reg, <<>>, names, 1, id)
                         ELSE Registered(reg, "-")
             IN  IF done.err # "-" THEN Made(done.err, "register", 0, ws, done.reg)
                 ELSE Made("-", "-", id, Append(ws, chain), done.reg)

\* what make registers with the chain, in order
Defaults(log_failures, print_stats) ==
    (IF log_failures THEN <<[handler |-> "failures_logger", always |-> TRUE]>> ELSE <<>>)
    \o (IF print_stats THEN <<[handler |-> "print_report", always |-> TRUE]>> ELSE <<>>)

\* chain = make(..., name=name, log_failures=..., print_stats=..., register=...)
Make(name, exposed, log_failures, print_stats, registering) ==
    /\ Len(wrappers) < MaxChains
    /\ LET m == make(wrappers, registry, name, exposed, log_failures, print_stats, registering)
       IN  /\ wrappers' = m.wrappers
           /\ registry' = m.registry
           /\ history' = IF m.err = "-"
                         THEN Append(history, Defaults(log_failures, print_stats))
                         ELSE history
           /\ last' = [NoLast EXCEPT !.op = "make", !.name = name, !.chain = m.chain,
                                     !.err = m.err, !.stage = m.stage,
                                     !.exposed = exposed]
    /\ UNCHANGED <<runVars, buildVars>>

\* chain.add_report_handler(handler, always)
AddReportHandler(c, handler, always) ==
    /\ c \in 1..Len(wrappers)
    /\ Len(wrappers[c].report_handlers[FALSE]) < MaxHandlers
    /\ wrappers' = [wrappers EXCEPT ![c] = add_report_handler(@, handler, always)]
    /\ history' = [history EXCEPT ![c] = Append(@, [handler |-> handler, always |-> always])]
    /\ last' = [NoLast EXCEPT !.op = "add", !.chain = c]
    /\ UNCHANGED <<registry, runVars, buildVars>>

\* chain.clear_report_handlers()
ClearReportHandlers(c) ==
    /\ c \in 1..Len(wrappers)
    /\ wrappers' = [wrappers EXCEPT ![c] = clear_report_handlers(@)]
    /\ history' = [history EXCEPT ![c] = <<>>]
    /\ last' = [NoLast EXCEPT !.op = "clear", !.chain = c]
    /\ UNCHANGED <<registry, runVars, buildVars>>

\* chain(input), the core answering success
Call(c, success) ==
    /\ c \in 1..Len(wrappers)
    /\ last' = [NoLast EXCEPT !.op = "call", !.chain = c, !.success = success,
                              !.called = Wrapper_call(wrappers[c], success)]
    /\ UNCHANGED <<registry, wrappers, history, runVars, buildVars>>

\* get(name)
Get(name) ==
    /\ last' = [NoLast EXCEPT !.op = "get", !.name = name, !.found = get(registry, name)]
    /\ UNCHANGED <<registry, wrappers, history, runVars, buildVars>>

Handlers == {"h1", "h2"}

RECURSIVE Dotted(_)
\* the names of at most n parts
Dotted(n) ==
    IF n = 1 THEN {<<"a">>, <<"b">>}
    ELSE Dotted(n - 1) \cup {p \o <<".">> \o q : p \in Dotted(n - 1), q \in Dotted(1)}

RegNames == {Str(s) : s \in Dotted(MaxDepth)}
BadNames == {Str(<<>>), Str(<<"a", ".">>), Str(<<"1">>)}
Exposures == {<<>>, <<FALSE>>, <<TRUE>>, <<TRUE, FALSE>>}

\* one chain, its handlers and its calls
HandlerInit == RunIdle /\ BuildIdle /\ ChainsIdle
HandlerNext ==
    \/ \E name \in {None, Str(<<"a">>)}, exposed \in Exposures,
             log_failures, print_stats, registering \in BOOLEAN :
          wrappers = <<>> /\ Make(name, exposed, log_failures, print_stats, registering)
    \/ \E c \in 1..Len(wrappers), handler \in Handlers, always \in BOOLEAN :
          AddReportHandler(c, handler, always)
    \/ \E c \in 1..Len(wrappers) : ClearReportHandlers(c)
    \/ \E c \in 1..Len(wrappers), success \in BOOLEAN : Call(c, success)
HandlerSpec == HandlerInit /\ [][HandlerNext]_vars

\* chains made under names, and looked up
RegistryInit == RunIdle /\ BuildIdle /\ ChainsIdle
RegistryNext ==
    \/ \E name \in RegNames : Make(name, <<TRUE>>, TRUE, FALSE, TRUE)
    \/ \E name \in BadNames \cup {Str(<<"b">>)}, exposed \in Exposures :
          (IF name \in BadNames THEN exposed = <<TRUE>>
              ELSE \A i \in 1..Len(exposed) : ~exposed[i])
          /\ Make(name, exposed, TRUE, FALSE, TRUE)
    \/ \E name \in RegNames \cup BadNames \cup {None} : Get(name)
RegistrySpec == RegistryInit /\ [][RegistryNext]_vars

Chars == {"a", "1", "_", "-", ".", "\n"}
RECURSIVE Strings(_)
\* the strings of at most n characters
Strings(n) ==
    IF n = 0 THEN {<<>>}
    ELSE Strings(n - 1) \cup {Append(s, c) : s \in Strings(n - 1), c \in Chars}

\* one chain made under a name, whatever the name
NameInit == RunIdle /\ BuildIdle /\ ChainsIdle
NameNext ==
    \E s \in Strings(MaxChars) :
        last.op = "none" /\ Make(Str(s), <<TRUE>>, TRUE, FALSE, TRUE)
NameSpec == NameInit /\ [][NameNext]_vars






(***************************************************************************)
(* Vocabulary of the properties.                                           *)
(***************************************************************************)
Has(p) == p \in DOMAIN frames
FramesOf(kinds) == {p \in DOMAIN frames : frames[p].node.kind \in kinds}
NumNodes(p) == Len(frames[p].node.nodes)
\* the k-th child call of the frame at p returned ret
Returned(p, k) == Has(Kid(p, k)) /\ frames[Kid(p, k)].pc = "done"
\* the k-th child call of the frame at p yielded the absent result
Absent(p, k) == Returned(p, k) /\ frames[Kid(p, k)].ret = None
ChildSeverity(p, k) == frames[p].node.nodes[k].severity
\* number of outcomes recorded by the leaf call at p
Recorded(p) ==
    BagCardinality([e \in {x \in BagToSet(reports) : x.at = p} |-> reports[e]])
Max(S) == CHOOSE x \in S : \A y \in S : y <= x
\* the elements a loop call iterates over (none when its argument is not iterable)
LoopItems(p) == IF Iterable(frames[p].arg) THEN Items(frames[p].arg) ELSE <<>>

(***************************************************************************)
(* C1  Chain short-circuit: once a child of severity NORMAL or REQUIRED    *)
(* has yielded the absent result, no child declared after it is ever       *)
(* invoked in that chain call, and the chain call returns absent (it is    *)
(* either still about to examine that result, or has returned None).       *)
(***************************************************************************)
C1_ShortCircuit ==
    \A p \in FramesOf({"Chain"}) : \A k \in 1..NumNodes(p) :
        (Absent(p, k) /\ ChildSeverity(p, k) \in {NORMAL, REQUIRED}) =>
            /\ \A j \in (k + 1)..NumNodes(p) : ~Has(Kid(p, j))
            /\ \/ frames[p].pc = "wait" /\ frames[p].i = k
               \/ frames[p].pc = "done" /\ frames[p].ret = None

\* a concurrent chain of two children has returned absent after its first child,
\* of severity NORMAL or REQUIRED, yielded absent; a synchronous one did before it
C1_Witness ==
    /\ converted
    /\ first.val = None
    /\ \E p \in FramesOf({"Chain"}) :
          /\ frames[p].node.async
          /\ NumNodes(p) >= 2
          /\ Absent(p, 1)
          /\ ChildSeverity(p, 1) \in {NORMAL, REQUIRED}
          /\ frames[p].pc = "done"

(***************************************************************************)
(* C2  Chain optional-skip: an absent result of an OPTIONAL child does not *)
(* end the chain call; the next child is invoked, with exactly the         *)
(* argument the failed optional child was given; and a chain call that     *)
(* returns with no non-optional child having yielded absent returns the    *)
(* last non-absent value (the chain's own argument when there is none).    *)
(***************************************************************************)
LastValue(p) ==
    LET ks == {k \in 1..NumNodes(p) : Returned(p, k) /\ frames[Kid(p, k)].ret # None}
    IN  IF ks = {} THEN frames[p].arg ELSE frames[Kid(p, Max(ks))].ret

C2_OptionalSkip ==
    \A p \in FramesOf({"Chain"}) :
        /\ \A k \in 1..NumNodes(p) :
              (Absent(p, k) /\ ChildSeverity(p, k) = OPTIONAL) =>
                  /\ ~(frames[p].pc = "done" /\ frames[p].i = k)
                  /\ (frames[p].pc = "done" /\ k < NumNodes(p)) => Has(Kid(p, k + 1))
                  /\ Has(Kid(p, k + 1)) => frames[Kid(p, k + 1)].arg = frames[Kid(p, k)].arg
        /\ ( /\ frames[p].pc = "done"
             /\ \A k \in 1..NumNodes(p) : Absent(p, k) => ChildSeverity(p, k) = OPTIONAL )
           => frames[p].ret = LastValue(p)

\* a chain call has returned a value after its OPTIONAL first child yielded absent
\* and its second child was invoked with the chain's argument
C2_Witness ==
    \E p \in FramesOf({"Chain"}) :
        /\ NumNodes(p) >= 2
        /\ Absent(p, 1)
        /\ ChildSeverity(p, 1) = OPTIONAL
        /\ Returned(p, 2)
        /\ frames[Kid(p, 2)].arg = frames[p].arg
        /\ frames[p].pc = "done"
        /\ frames[p].ret # None

(***************************************************************************)
(* C3  Leaf error containment: a leaf call never raises; while its         *)
(* callable has not ended nothing is recorded; once it has returned,       *)
(* exactly one outcome is recorded for it: a failure (error, the leaf's    *)
(* own severity, the input) with the absent result returned if the         *)
(* callable raised, a success (input, output) with the output returned     *)
(* otherwise.                                                              *)
(***************************************************************************)
C3_LeafContainment ==
    \A p \in FramesOf({"Node"}) :
        LET f == frames[p]
            out == Apply(f.node.func, f.arg)
        IN  /\ f.pc # "raised"
            /\ f.pc \in {"start", "called"} => Recorded(p) = 0
            /\ f.pc = "done" =>
                  /\ Recorded(p) = 1
                  /\ \A e \in BagToSet(reports) : e.at = p =>
                        IF out.raises
                        THEN /\ e.kind = "failure"
                             /\ e.error = out.error
                             /\ e.severity = f.node.severity
                             /\ e.input = f.arg
                             /\ f.ret = None
                        ELSE /\ e.kind = "success"
                             /\ e.input = f.arg
                             /\ e.output = out.val
                             /\ f.ret = out.val

\* a concurrent OPTIONAL leaf whose callable raised has returned absent, and a
\* leaf whose callable returned a value has returned it
C3_Witness ==
    /\ \E p \in FramesOf({"Node"}) :
          /\ frames[p].node.async
          /\ frames[p].node.severity = OPTIONAL
          /\ frames[p].pc = "done"
          /\ Apply(frames[p].node.func, frames[p].arg).raises
          /\ Recorded(p) = 1
    /\ \E p \in FramesOf({"Node"}) :
          /\ frames[p].pc = "done"
          /\ ~Apply(frames[p].node.func, frames[p].arg).raises
          /\ frames[p].ret # None

(***************************************************************************)
(* C4  Exactly-once execution: no callable is invoked twice at the same    *)
(* position of one top-level call; a chain invokes its children in         *)
(* declared order, each after the one before it returned without ending    *)
(* the chain; a model call that returned invoked every branch once on the  *)
(* model's own argument; a loop call that returned invoked its child once  *)
(* per element, on that element.                                           *)
(***************************************************************************)
CalledOnce(p) ==
    frames[p].node.kind = "Node" => (p \in DOMAIN calls /\ calls[p] = 1)

C4_ExactlyOnce ==
    /\ \A p \in DOMAIN calls : calls[p] = 1 /\ Has(p)
    /\ \A p \in DOMAIN frames : frames[p].pc \in {"called", "done"} => CalledOnce(p)
    /\ \A p \in FramesOf({"Chain"}) : \A k \in 1..NumNodes(p) :
          Has(Kid(p, k)) =>
              /\ \A j \in 1..(k - 1) :
                    /\ Returned(p, j)
                    /\ ~(Absent(p, j) /\ ChildSeverity(p, j) # OPTIONAL)
              /\ k <= frames[p].i
    /\ \A p \in FramesOf({"ListModel", "DictModel"}) :
          /\ \A q \in DOMAIN frames : (q # <<>> /\ Parent(q) = p) => q[Len(q)] \in 1..NumNodes(p)
          /\ frames[p].pc = "done" =>
                \A k \in 1..NumNodes(p) :
                    /\ Returned(p, k)
                    /\ frames[Kid(p, k)].arg = frames[p].arg
                    /\ frames[Kid(p, k)].node = frames[p].node.nodes[k]
    /\ \A p \in FramesOf({"Loop"}) :
          /\ \A q \in DOMAIN frames :
                (q # <<>> /\ Parent(q) = p) => q[Len(q)] \in 1..Len(LoopItems(p))
          /\ frames[p].pc = "done" =>
                \A k \in 1..Len(LoopItems(p)) :
                    /\ Returned(p, k)
                    /\ frames[Kid(p, k)].arg = LoopItems(p)[k]
                    /\ frames[Kid(p, k)].node = frames[p].node.nodes[1]

\* a loop call over two elements has returned: its child, a chain, was invoked
\* once per element, and the leaf of each chain call was invoked once
C4_Witness ==
    \E p \in FramesOf({"Loop"}) :
        /\ Len(LoopItems(p)) >= 2
        /\ frames[p].pc = "done"
        /\ frames[p].node.nodes[1].kind = "Chain"
        /\ \A k \in 1..2 : Kid(Kid(p, k), 1) \in DOMAIN calls

(***************************************************************************)
(* C5  Reporter threading: every outcome recorded by a leaf below a        *)
(* container call is recorded in the reporter that call was processed with *)
(* or in a scope derived from it.                                          *)
(***************************************************************************)
IsPrefix(p, q) == Len(p) <= Len(q) /\ SubSeq(q, 1, Len(p)) = p

C5_ReporterThreading ==
    \A p \in FramesOf({"Chain", "Loop", "ListModel", "DictModel"}) :
        \A e \in BagToSet(reports) :
            IsPrefix(p, e.at) => DerivedFrom(e.rep, frames[p].rep)

(***************************************************************************)
(* C6  The absent result is distinct from every value a callable returns:  *)
(* a leaf whose callable returned normally does not yield the absent       *)
(* result, so a chain call whose children are leaves that all returned     *)
(* normally never returns before its last child has been invoked.          *)
(***************************************************************************)
ReturnedNormally(q) ==
    /\ frames[q].node.kind = "Node"
    /\ frames[q].pc = "done"
    /\ ~Apply(frames[q].node.func, frames[q].arg).raises

C6_AbsentDistinct ==
    /\ \A q \in FramesOf({"Node"}) : ReturnedNormally(q) => frames[q].ret # None
    /\ \A p \in FramesOf({"Chain"}) :
          ( /\ frames[p].pc = "done"
            /\ \A k \in 1..NumNodes(p) : Has(Kid(p, k)) => ReturnedNormally(Kid(p, k)) )
          => \A k \in 1..NumNodes(p) : Has(Kid(p, k))

(***************************************************************************)
(* C7  Branching model result: a model call never raises of its own (only  *)
(* an exception escaping a branch passes through it) and never returns     *)
(* absent; what it returns holds, in declared order, one entry per branch  *)
(* except exactly the branches whose result is absent and whose severity   *)
(* is OPTIONAL; the keyed variant maps each surviving key to the result of *)
(* its own branch.                                                         *)
(***************************************************************************)
RECURSIVE ModelSurvivors(_, _)
ModelSurvivors(p, k) ==
    IF k > NumNodes(p) THEN <<>>
    ELSE (IF Absent(p, k) /\ ChildSeverity(p, k) = OPTIONAL THEN <<>> ELSE <<k>>)
         \o ModelSurvivors(p, k + 1)

ModelExpected(p) ==
    LET s == ModelSurvivors(p, 1)
    IN  IF frames[p].node.kind = "ListModel"
        THEN PyList([j \in 1..Len(s) |-> frames[Kid(p, s[j])].ret])
        ELSE PyDict([j \in 1..Len(s) |->
                        <<frames[p].node.branches[s[j]], frames[Kid(p, s[j])].ret>>])

ModelResultAt(p) ==
    /\ frames[p].pc = "raised" =>
          \E k \in 1..NumNodes(p) : Has(Kid(p, k)) /\ frames[Kid(p, k)].pc = "raised"
    /\ frames[p].pc = "done" =>
          /\ frames[p].ret # None
          /\ frames[p].ret = ModelExpected(p)

C7_ModelResult == \A p \in FramesOf({"ListModel", "DictModel"}) : ModelResultAt(p)

\* the same, for the model calls with at least one branch
C7_NonEmptyModelResult ==
    \A p \in FramesOf({"ListModel", "DictModel"}) : NumNodes(p) >= 1 => ModelResultAt(p)

(***************************************************************************)
(* C8  Loop result: a loop call over a sequence never raises of its own    *)
(* and never returns absent; when it returns, its child was invoked on     *)
(* every element and the result is the list of the child's non-absent      *)
(* results in the order of the elements (empty when every element failed), *)
(* whatever the child's severity.                                          *)
(***************************************************************************)
RECURSIVE LoopSurvivors(_, _)
LoopSurvivors(p, k) ==
    IF k > Len(LoopItems(p)) THEN <<>>
    ELSE (IF Absent(p, k) THEN <<>> ELSE <<k>>) \o LoopSurvivors(p, k + 1)

LoopExpected(p) ==
    LET s == LoopSurvivors(p, 1)
    IN  PyList([j \in 1..Len(s) |-> frames[Kid(p, s[j])].ret])

C8_LoopResult ==
    \A p \in FramesOf({"Loop"}) :
        Iterable(frames[p].arg) =>
            /\ frames[p].pc = "raised" =>
                  \E k \in 1..Len(LoopItems(p)) :
                      Has(Kid(p, k)) /\ frames[Kid(p, k)].pc = "raised"
            /\ frames[p].pc = "done" =>
                  /\ \A k \in 1..Len(LoopItems(p)) : Returned(p, k)
                  /\ frames[p].ret # None
                  /\ frames[p].ret = LoopExpected(p)

\* a loop call over two elements returned the one surviving result, and its child
\* was not OPTIONAL
C8_Witness ==
    \E p \in FramesOf({"Loop"}) :
        /\ Len(LoopItems(p)) = 2
        /\ frames[p].pc = "done"
        /\ Absent(p, 1)
        /\ ~Absent(p, 2)
        /\ frames[p].node.nodes[1].severity # OPTIONAL
        /\ frames[p].ret = PyList(<<frames[Kid(p, 2)].ret>>)

\* a concurrent loop call returned the empty list: every element failed
C8_WitnessAllFail ==
    \E p \in FramesOf({"Loop"}) :
        /\ frames[p].node.async
        /\ Len(LoopItems(p)) = 2
        /\ frames[p].pc = "done"
        /\ Absent(p, 1) /\ Absent(p, 2)
        /\ frames[p].ret = PyList(<<>>)

(***************************************************************************)
(* C9  Sync/concurrent parity: tree.to_async() exists for every            *)
(* synchronous tree and, called on the same input, ends as the             *)
(* synchronous tree did (same value, or absent).                           *)
(***************************************************************************)
C9_Parity ==
    /\ phase # "unconvertible"
    /\ (phase = "finished" /\ converted) => Outcome(frames[<<>>]) = first

\* the part of parity that fails on severities alone: trees without models
C9_ParityOfConverted ==
    (phase = "finished" /\ converted) => Outcome(frames[<<>>]) = first

(***************************************************************************)
(* C10  Concurrent output ordering: whatever the order in which the tasks  *)
(* of a concurrent loop or model complete, the result lists the surviving  *)
(* results in declared element / branch order, each taken from the task of *)
(* its own element / branch, and a branch is left out on its own result    *)
(* and its own severity.                                                   *)
(***************************************************************************)
C10_ConcurrentOrder ==
    /\ \A p \in FramesOf({"Loop"}) :
          (frames[p].node.async /\ frames[p].pc = "done") =>
              /\ Len(frames[p].ret.v) = Len(LoopSurvivors(p, 1))
              /\ \A j \in 1..Len(frames[p].ret.v) :
                    frames[p].ret.v[j] = frames[Kid(p, LoopSurvivors(p, 1)[j])].ret
    /\ \A p \in FramesOf({"ListModel", "DictModel"}) :
          (frames[p].node.async /\ frames[p].pc = "done") =>
              /\ Len(frames[p].ret.v) = Len(ModelSurvivors(p, 1))
              /\ \A j \in 1..Len(frames[p].ret.v) :
                    LET k == ModelSurvivors(p, 1)[j]
                        x == frames[p].ret.v[j]
                    IN  IF frames[p].node.kind = "ListModel"
                        THEN x = frames[Kid(p, k)].ret
                        ELSE x = <<frames[p].node.branches[k], frames[Kid(p, k)].ret>>

\* a concurrent loop whose second task completed first returned two different
\* results in element order
C10_Witness ==
    \E p \in FramesOf({"Loop"}) :
        /\ frames[p].node.async
        /\ frames[p].pc = "done"
        /\ frames[p].arrived = <<2, 1>>
        /\ Len(frames[p].ret.v) = 2
        /\ frames[p].ret.v[1] # frames[p].ret.v[2]
        /\ frames[p].ret.v[1] = frames[Kid(p, 1)].ret

(***************************************************************************)
(* C11  Join without cancellation: a concurrent loop or model that has     *)
(* started its tasks has exactly one task per element / branch; none of    *)
(* them is ever dropped; it returns only when every task has completed;    *)
(* and a task that yielded absent leaves the container waiting for the     *)
(* siblings that have not completed.                                       *)
(***************************************************************************)
Concurrent(p) ==
    /\ frames[p].node.async
    /\ frames[p].node.kind \in {"Loop", "ListModel", "DictModel"}

\* the number of tasks the concurrent call at p has to submit
Submitted(p) ==
    IF frames[p].node.kind = "Loop" THEN Len(LoopItems(p)) ELSE NumNodes(p)

KidsOf(p) == {q \in DOMAIN frames : q # <<>> /\ Parent(q) = p}

C11_JoinAll ==
    \A p \in {q \in DOMAIN frames : Concurrent(q)} :
        /\ frames[p].pc = "start" => KidsOf(p) = {}
        /\ frames[p].pc \in {"gather", "done"} =>
              KidsOf(p) = {Kid(p, k) : k \in 1..Submitted(p)}
        /\ frames[p].pc = "done" => \A k \in 1..Submitted(p) : Returned(p, k)
        /\ \A k, j \in 1..Submitted(p) :
              ( /\ Absent(p, k)
                /\ Has(Kid(p, j))
                /\ frames[Kid(p, j)].pc \notin {"done", "raised"} )
              => frames[p].pc = "gather"

\* a concurrent loop over two elements returned the one surviving result: its
\* first task had yielded absent before the second one completed
C11_Witness ==
    \E p \in FramesOf({"Loop"}) :
        /\ frames[p].node.async
        /\ frames[p].pc = "done"
        /\ frames[p].arrived = <<1, 2>>
        /\ Absent(p, 1)
        /\ Returned(p, 2)
        /\ frames[Kid(p, 2)].ret # None
        /\ frames[p].ret = PyList(<<frames[Kid(p, 2)].ret>>)

(***************************************************************************)
(* C12  A concurrent chain never runs its steps in parallel: at most one   *)
(* child call of a chain call is in flight; child k + 1 is started only    *)
(* after child k has returned and the chain has examined its result; and   *)
(* what the chain returns is what the synchronous algorithm makes of its   *)
(* children's results.                                                     *)
(***************************************************************************)
InFlight(p) ==
    {k \in 1..NumNodes(p) : Has(Kid(p, k)) /\ frames[Kid(p, k)].pc \notin {"done", "raised"}}

\* the synchronous algorithm over the results of the children k..n, from cur
RECURSIVE ChainFold(_, _, _, _)
ChainFold(p, k, n, cur) ==
    IF k > n THEN cur
    ELSE IF frames[Kid(p, k)].ret = None
         THEN (IF ChildSeverity(p, k) = OPTIONAL THEN ChainFold(p, k + 1, n, cur) ELSE None)
         ELSE ChainFold(p, k + 1, n, frames[Kid(p, k)].ret)

\* the children a chain call that returned has invoked: all up to the first abort
Invokes(p, k) ==
    \A j \in 1..(k - 1) : ~(Absent(p, j) /\ ChildSeverity(p, j) # OPTIONAL)

C12_Sequential ==
    \A p \in {q \in FramesOf({"Chain"}) : frames[q].node.async} :
        /\ Cardinality(InFlight(p)) <= 1
        /\ \A k \in 1..NumNodes(p) :
              Has(Kid(p, k)) =>
                  /\ \A j \in 1..(k - 1) : Returned(p, j)
                  /\ frames[p].i >= k
                  /\ (\A j \in 1..(k - 1) : Returned(p, j)) =>
                        frames[Kid(p, k)].arg = ChainFold(p, 1, k - 1, frames[p].arg)
        /\ frames[p].pc = "done" =>
              /\ \A k \in 1..NumNodes(p) : Has(Kid(p, k)) <=> Invokes(p, k)
              /\ frames[p].ret = ChainFold(p, 1, NumNodes(p), frames[p].arg)

\* a concurrent chain of two children returned the second child's result, the
\* second child having been given the first child's result
C12_Witness ==
    \E p \in FramesOf({"Chain"}) :
        /\ frames[p].node.async
        /\ NumNodes(p) = 2
        /\ frames[p].pc = "done"
        /\ Returned(p, 1) /\ Returned(p, 2)
        /\ frames[Kid(p, 1)].ret # frames[p].arg
        /\ frames[Kid(p, 2)].arg = frames[Kid(p, 1)].ret
        /\ frames[p].ret = frames[Kid(p, 2)].ret
        /\ frames[p].ret # None

(***************************************************************************)
(* C13  copy() returns an identical copy: the node copy() returns has the  *)
(* kind, name and severity of the receiver, and so has every descendant;   *)
(* optional(), required() and named(name) return a node that differs from  *)
(* the receiver in the one attribute set; and a node composed into a chain *)
(* by | keeps its severity and its descendants'.                           *)
(***************************************************************************)
Receiver == Deref(heap, made.self)
Result == Deref(heap, made.result)

C13_CopyIdentical ==
    made.err = "-" =>
        /\ made.op = "copy" => Result = Receiver
        /\ made.op = "optional" => Result = [Receiver EXCEPT !.severity = OPTIONAL]
        /\ made.op = "required" => Result = [Receiver EXCEPT !.severity = REQUIRED]
        /\ made.op = "named" => Result = [Receiver EXCEPT !.name = made.other]
        /\ (made.op = "or" /\ made.other.t = "node" /\ ~Result.async) =>
              Result.nodes[Len(Result.nodes)] = made.other.v

(***************************************************************************)
(* C14  Non-mutation of the receiver: no operation (copy, optional,        *)
(* required, named, to_async, the operators * and |) changes any node      *)
(* object that existed before it, and the node it returns is a new object; *)
(* an assignment to                                                        *)
(* the name or the severity of the returned node changes no other object,  *)
(* and nothing of what is seen through the receiver.                       *)
(***************************************************************************)
C14_ReceiverUnchanged ==
    [][ /\ \A o \in DOMAIN heap :
              (made'.op \in {"severity", "name"} => o # made.result)
              => (o \in DOMAIN heap' /\ heap'[o] = heap[o])
        /\ (made'.op \notin {"severity", "name"} /\ made'.err = "-")
              => made'.result \notin DOMAIN heap
        /\ (made'.op \in {"severity", "name"} /\ made.self # 0)
              => Deref(heap', made.self) = Deref(heap, made.self) ]_vars

\* the chain returned by o | other holds the receiver o itself as its first child;
\* the chain was then made REQUIRED while the receiver is still OPTIONAL
C14_Witness ==
    /\ made.op = "severity"
    /\ made.self # 0
    /\ heap[made.result].kind = "Chain"
    /\ heap[made.result].nodes # <<>>
    /\ heap[made.result].nodes[1] = made.self
    /\ heap[made.result].severity = REQUIRED
    /\ heap[made.self].severity = OPTIONAL

(***************************************************************************)
(* C15  Synchronous build of collections: build of a list of n synchronous *)
(* chainables returns a ListModel of n branches keyed 0..n-1 in declared   *)
(* order, build of a dict returns a DictModel of one branch per key, each  *)
(* branch being the build of its item; build of a synchronous callable     *)
(* returns a leaf of size 1 around it.                                     *)
(***************************************************************************)
RECURSIVE ContainsAsync(_)
\* a concurrent component at any depth of a chainable
ContainsAsync(obj) ==
    CASE obj.t = "node" -> obj.v.async
      [] obj.t = "callable" -> obj.v.coro
      [] obj.t = "list" -> \E k \in 1..Len(obj.v) : ContainsAsync(obj.v[k])
      [] obj.t = "dict" -> \E k \in 1..Len(obj.v) : ContainsAsync(obj.v[k][2])
      [] OTHER -> FALSE

RECURSIVE Built(_)
\* the synchronous tree of a chainable without concurrent component
Built(obj) ==
    CASE obj.t = "list" ->
            ListModel([k \in 1..Len(obj.v) |-> <<PyInt(k - 1), Built(obj.v[k])>>])
      [] obj.t = "dict" ->
            DictModel([k \in 1..Len(obj.v) |-> <<obj.v[k][1], Built(obj.v[k][2])>>])
      [] OTHER -> build(obj)

C15_BuildCollections ==
    (made.op = "build" /\ ~ContainsAsync(made.other)) =>
        /\ made.other.t \in {"list", "dict"} =>
              /\ made.err = "-"
              /\ Result = Built(made.other)
        /\ made.other.t = "callable" =>
              /\ made.err = "-"
              /\ Result.kind = "Node" /\ ~Result.async
              /\ Result.func = made.other.v
              /\ Result.len = 1

\* the part of C15 about callables alone
C15_BuildCallable ==
    (made.op = "build" /\ made.other.t = "callable" /\ ~ContainsAsync(made.other)) =>
        /\ made.err = "-"
        /\ Result.kind = "Node" /\ ~Result.async
        /\ Result.func = made.other.v
        /\ Result.len = 1

(***************************************************************************)
(* C16  Concurrency is the OR over components: nd(other), node | other and *)
(* node * other return a tree of concurrent nodes only when other holds a  *)
(* concurrent component at any depth (a concurrent node, an async          *)
(* callable, an element of a list, a value of a dict), and a tree of       *)
(* synchronous nodes only when other holds none and the receiver is        *)
(* synchronous.                                                            *)
(***************************************************************************)
RECURSIVE AllNodes(_, _)
\* every node of a tree is concurrent (async = TRUE) or synchronous (async = FALSE)
AllNodes(node, async) ==
    /\ node.async = async
    /\ \A k \in 1..Len(node.nodes) : AllNodes(node.nodes[k], async)

Composed == made.op \in {"nd", "or", "mul"} /\ made.other # None

C16_ConcurrencyIsOr ==
    Composed =>
        IF ContainsAsync(made.other)
        THEN made.err = "-" /\ AllNodes(Result, TRUE)
        ELSE (made.err = "-" /\ (made.self # 0 => AllNodes(Receiver, FALSE)))
             => AllNodes(Result, FALSE)

\* the same for nd of the chainables without dict
RECURSIVE NoDict(_)
NoDict(obj) ==
    CASE obj.t = "dict" -> FALSE
      [] obj.t = "list" -> \A k \in 1..Len(obj.v) : NoDict(obj.v[k])
      [] OTHER -> TRUE

C16_ListsByNd ==
    (made.op = "nd" /\ made.other # None /\ NoDict(made.other)) =>
        IF ContainsAsync(made.other)
        THEN made.err = "-" /\ AllNodes(Result, TRUE)
        ELSE made.err = "-" => AllNodes(Result, FALSE)

(***************************************************************************)
(* Report handlers                                                         *)
(***************************************************************************)
\* the handlers a chain may hold: those of make and those added
AllHandlers == Handlers \cup {"failures_logger", "print_report"}

\* how many times handler occurs in the sequence of handlers called
Times(called, handler) == Cardinality({i \in 1..Len(called) : called[i] = handler})

\* how many registrations of handler on chain c, since it was last cleared,
\* are owed a call: those made with always=True, and all of them on a failure
Due(c, handler, success) ==
    Cardinality({i \in 1..Len(history[c]) :
                    /\ history[c][i].handler = handler
                    /\ (history[c][i].always \/ ~success)})

Path(name) == split(name.v, ".")

\* the paths bound to a chain
ChainsBound(reg) == {at \in DOMAIN reg : reg[at].t = "chain"}

\* the proper prefixes of a path
Prefixes(at) == {SubSeq(at, 1, k) : k \in 1..(Len(at) - 1)}

\* registering under the path meets a binding: the path is bound, to a chain
\* or to a namespace, or one of its proper prefixes is bound to a chain
Conflict(reg, at) ==
    \/ at \in DOMAIN reg
    \/ \E pre \in Prefixes(at) : pre \in ChainsBound(reg)

\* the step is a make that got as far as registering its chain
Registers == last'.op = "make" /\ last'.name # None /\ last'.stage \in {"-", "register"}

\* nothing is bound below a chain, and what is above a binding is a namespace
NoOverlap(reg) ==
    \A at \in DOMAIN reg : \A pre \in Prefixes(at) : pre \in DOMAIN reg /\ reg[pre].t = "dict"

(* C18: a registration fails with ValueError when the full name is bound,  *)
(* to a chain or to a namespace, or a proper prefix of it is bound to a     *)
(* chain; otherwise it succeeds and binds that name, and no other, to the   *)
(* new chain.  A name bound to a chain stays bound to that chain, and no    *)
(* path is a chain and a namespace at once.                                 *)
C18_RegistryConflicts ==
    [][/\ Registers =>
             IF Conflict(registry, Path(last'.name))
             THEN last'.err = "ValueError" /\ last'.stage = "register"
             ELSE /\ last'.err = "-"
                  /\ last'.chain = Len(wrappers) + 1
                  /\ registry'[Path(last'.name)] = ChainAt(last'.chain)
                  /\ ChainsBound(registry') = ChainsBound(registry) \cup {Path(last'.name)}
       /\ \A at \in ChainsBound(registry) :
             at \in DOMAIN registry' /\ registry'[at] = registry[at]
       /\ NoOverlap(registry')]_vars

\* a registration refused because a proper prefix of the name is a chain,
\* in a registry that also holds a namespace
C18_Witness ==
    /\ last.op = "make" /\ last.err = "ValueError" /\ last.stage = "register"
    /\ \E pre \in Prefixes(Path(last.name)) : pre \in ChainsBound(registry)
    /\ \E at \in DOMAIN registry : registry[at].t = "dict"

\* the string s starts with the string pre
StartsWith(s, pre) == Len(pre) <= Len(s) /\ SubSeq(s, 1, Len(pre)) = pre

\* the chains registered under the name, or below it: every chain made in
\* RegistrySpec is registered under the name it was made with
Under(name) ==
    {c \in 1..Len(wrappers) :
        \/ name = None
        \/ wrappers[c].name = name
        \/ StartsWith(wrappers[c].name.v, name.v \o <<".">>)}

(* C19: get(p) returns the chains registered under the name p or under a   *)
(* name that starts with p followed by a dot: one chain for a registered    *)
(* full name, none for a name that is not registered or that passes         *)
(* through a chain, and every registered chain for get().                   *)
C19_RegistryLookup == last.op = "get" => last.found = Under(last.name)

\* the lookup of a namespace holding two of the three registered chains
C19_Witness ==
    /\ last.op = "get" /\ last.name # None
    /\ Cardinality(last.found) = 2
    /\ Len(wrappers) = 3

\* the lookup of a name that passes through a chain
C19_WitnessThrough ==
    /\ last.op = "get" /\ last.name # None /\ last.found = {}
    /\ \E pre \in Prefixes(Path(last.name)) : pre \in ChainsBound(registry)

(***************************************************************************)
(* Names                                                                   *)
(***************************************************************************)
\* a non-empty string of letters, digits, _ , - and dots, in which the
\* first character and every character after a dot is a letter, and which
\* does not end with a dot
WellFormed(s) ==
    /\ s # <<>>
    /\ s[Len(s)] # "."
    /\ \A i \in 1..Len(s) :
          /\ s[i] \in Letters \cup Digits \cup {"_", "-", "."}
          /\ (i = 1 \/ s[i - 1] = ".") => s[i] \in Letters

(* C20: make accepts a name exactly when it is non-empty and each of its   *)
(* dot-separated segments starts with a letter and holds only letters,      *)
(* digits, _ and -; any other name is refused with ValueError before        *)
(* anything is built or registered.                                         *)
C20_NameValidity ==
    last.op = "make" =>
        /\ last.err = "-" <=> WellFormed(last.name.v)
        /\ ~WellFormed(last.name.v) =>
              /\ last.err = "ValueError" /\ last.stage = "name"
              /\ wrappers = <<>> /\ registry = <<>>

\* the part of C20 on refusals: a refused name is refused by the validation,
\* with nothing built and nothing registered
C20_Refusals ==
    (last.op = "make" /\ last.err # "-") =>
        /\ last.err = "ValueError" /\ last.stage = "name"
        /\ wrappers = <<>> /\ registry = <<>>

(***************************************************************************)
(* Sizes                                                                   *)
(***************************************************************************)
RECURSIVE SizesOf(_)
\* the sum of the sizes of the objects listed
SizesOf(ids) == IF ids = <<>> THEN 0 ELSE heap[Head(ids)].len + SizesOf(Tail(ids))

\* the size of object o is the one its class and its current children give
SizedByChildren(o) ==
    IF heap[o].kind = "Node" THEN heap[o].len = 1
    ELSE heap[o].len = SizesOf(heap[o].nodes)

(* C21: every node made by the constructors and builders has a size of at  *)
(* least 1: 1 for a leaf, the child's size for a loop, the sum of the       *)
(* current children's sizes for a chain or a model.                         *)
C21_SizeInvariant ==
    made.op \notin {"build", "async_build"} =>
        \A o \in 1..Len(heap) : heap[o].len >= 1 /\ SizedByChildren(o)

\* the part of C21 on how sizes add up: it holds of every node, the empty
\* chain included
C21_SizeIsSum == \A o \in 1..Len(heap) : SizedByChildren(o)

(***************************************************************************)
(* Construction                                                            *)
(***************************************************************************)
\* the parsed tree exposes no node, or no node marked required
NothingRequired(exposed) == \A i \in 1..Len(exposed) : ~exposed[i]

(* C22: make raises ValueError when the parsed tree exposes no node or no  *)
(* node marked required, and returns no chain; so every chain there is, and *)
(* every chain called, has nodes and a required node among them.            *)
C22_ConstructionGuard ==
    /\ (last.op = "make" /\ NothingRequired(last.exposed)) =>
          /\ last.err = "ValueError" /\ last.stage = "nodes"
          /\ last.chain = 0 /\ wrappers = <<>>
    /\ \A c \in 1..Len(wrappers) :
          wrappers[c].total_nodes >= 1 /\ wrappers[c].required_nodes >= 1
    /\ last.op = "call" => wrappers[last.chain].required_nodes >= 1

\* a make refused for a tree whose only node is optional
C22_Witness ==
    /\ last.op = "make" /\ last.exposed = <<FALSE>>
    /\ last.err = "ValueError" /\ last.stage = "nodes"

\* a chain with an optional node beside its required one, called
C22_WitnessCalled ==
    /\ last.op = "call"
    /\ wrappers[last.chain].total_nodes > wrappers[last.chain].required_nodes

\* the step is a make that raised
FailedMake == last'.op = "make" /\ last'.err # "-"

(* C23: a make that fails, for its name, for its tree or for a conflict at *)
(* any part of the dotted name, leaves the registry as it was: no chain     *)
(* bound, no namespace added, no chain made; get() and get of the name     *)
(* refused give what they gave before.                                      *)
C23_FailureKeepsRegistry ==
    [][FailedMake =>
          /\ registry' = registry
          /\ wrappers' = wrappers
          /\ \A name \in {None, last'.name} :
                get(registry', name) = get(registry, name)]_vars

\* a make refused at the last part of its name, below an existing namespace
C23_Witness ==
    /\ last.op = "make" /\ last.err = "ValueError" /\ last.stage = "register"
    /\ Len(Path(last.name)) >= 2
    /\ Path(last.name) \in DOMAIN registry

\* a make with a free name refused for its tree, other chains being registered
C23_WitnessTree ==
    /\ last.op = "make" /\ last.err = "ValueError" /\ last.stage = "nodes"
    /\ registry # <<>>
    /\ Path(last.name) \notin DOMAIN registry

====
